---------------------------- MODULE Spec2Model ----------------------------
(***************************************************************************)
(* Model of backend/server.py of LyricSinMotion: the audio analysis        *)
(* analyze_audio_file (segmentation into 8-second blocks, per-segment      *)
(* energy and beat aggregation, intensity / section classification, and    *)
(* the fallback result of the except handler), and the request handlers    *)
(* that read and write one project document: upload_audio,                 *)
(* auto_generate_scenes, generate_storyboard, the scene update and the     *)
(* handlers that set fields of their own.                                  *)
(*                                                                         *)
(* Spec, SpecScenario and SpecRounding run one call of analyze_audio_file  *)
(* on different families of inputs; SpecServer runs the handlers as        *)
(* interleaved coroutines, with analyze_audio_file called by upload_audio. *)
(*                                                                         *)
(* Units.  Time is counted in samples: one tick is 1/sr second, so         *)
(* len(y) is at once the sample count and the duration in ticks.  An rms   *)
(* value is an integer level e in 0..MaxEnergy standing for the float      *)
(* e / FullScale.  Every real-valued local of the code is kept as an exact *)
(* fraction [n, d]; the values the code stores with round(x, k) are kept   *)
(* as integers in units of 10^-k.                                          *)
(***************************************************************************)
EXTENDS Integers, Sequences, FiniteSets, TLC

\* ------------------------------------------------------------- bounds
\* Every whole number of seconds up to MaxSeconds is a track length.
MaxSeconds == 20
\* So is every whole number of blocks up to MaxSegments; the tracks of up to
\* two blocks also come with one more sample and with half a second more.
MaxSegments == 11
\* Longest rms curve the extractor hands over.
MaxFrames == 2
\* Largest rms level of a frame.
MaxEnergy == 5
\* Longest beat train the beat tracker hands over.
MaxBeats == 13
\* A beat train starts at time 0, BeatOffset beats later or with the second block.
BeatOffset == 4
\* Requests the server handles at once, and requests it receives in all.
MaxConcurrent == 2
MaxRequests == 3

\* ------------------------------------------------- program constants
sr == 22050
segment_duration == 8
FallbackDuration == 180
BeatSample == 50
DefaultBlock == 8

\* The rms level that stands for the float 1.0.
FullScale == MaxEnergy

\* ------------------------------------------------------------ helpers
Min(a, b) == IF a < b THEN a ELSE b

Pow10(k) == IF k = 0 THEN 1 ELSE IF k = 1 THEN 10 ELSE IF k = 2 THEN 100 ELSE 1000

\* Variant: the block count truncated, int(a / b), as lines 178 and 391 compute it.
FloorDiv(a, b) == a \div b

\* np.ceil(a / b) of two non-negative numbers, as an integer.
CeilDiv(a, b) == (a + b - 1) \div b

\* round(n / d, digits) in units of 10^-digits: nearest, ties to even.
Round(n, d, digits) ==
    LET m == n * Pow10(digits)
        q == m \div d
        r == m % d
    IN  IF 2 * r < d THEN q
        ELSE IF 2 * r > d THEN q + 1
        ELSE IF q % 2 = 0 THEN q ELSE q + 1

\* np.sum and np.max of a sequence, by halves so that long curves stay shallow.
RECURSIVE SumSeq(_)
SumSeq(s) ==
    IF s = << >> THEN 0
    ELSE IF Len(s) = 1 THEN s[1]
    ELSE LET h == Len(s) \div 2
         IN  SumSeq(SubSeq(s, 1, h)) + SumSeq(SubSeq(s, h + 1, Len(s)))

RECURSIVE MaxSeq(_)
MaxSeq(s) ==
    IF Len(s) = 1 THEN s[1]
    ELSE LET h == Len(s) \div 2
             a == MaxSeq(SubSeq(s, 1, h))
             b == MaxSeq(SubSeq(s, h + 1, Len(s)))
         IN  IF a > b THEN a ELSE b

\* Comparisons of a fraction q = [n, d] (d > 0) with the literal a / b.
Gt(q, a, b) == q.n * b > a * q.d
Lt(q, a, b) == q.n * b < a * q.d

\* A local variable that no statement has assigned yet.
Unbound == [n |-> 0, d |-> 0]
NoResult == [pending |-> TRUE]

\* ------------------------------------------------------------- state
VARIABLES
    load_ok,            \* librosa can load and analyse the file
    y_len,              \* len(y)
    rms,                \* librosa.feature.rms(y=y)[0], as levels
    beat_times,         \* beat timestamps, in ticks
    tempo_in,           \* what beat_track returns as tempo: an array of tenths of bpm
    fp_trunc,           \* int(duration * sr) loses the last sample to float rounding
    fp_quot,            \* int(s / rms_per_frame) falls one short on an exact quotient
    pc,                 \* "start", "loop", "except", "done"
    exc,                \* the exception on its way to the handler, "" when none
    num_segments,
    i,
    start_time, end_time,
    start_frame, end_frame,
    avg_energy,
    max_rms,
    normalized_energy,
    beat_density,
    segments,
    result,
    project,            \* the document of db.projects the requests address
    req,                \* the requests in progress: handler, position, locals
    tmp_files,          \* the temporary files on disk, named by their request
    started,            \* the number of requests received so far
    api_key             \* EMERGENT_LLM_KEY is set in the environment

inputs == << load_ok, y_len, rms, beat_times, tempo_in, fp_trunc, fp_quot >>
locals == << start_time, end_time, start_frame, end_frame, avg_energy, max_rms,
             normalized_energy, beat_density >>
server == << project, req, tmp_files, started, api_key >>
vars == << load_ok, y_len, rms, beat_times, tempo_in, fp_trunc, fp_quot,
           pc, exc, num_segments, i, start_time, end_time, start_frame, end_frame,
           avg_energy, max_rms, normalized_energy, beat_density, segments, result,
           project, req, tmp_files, started, api_key >>

\* ------------------------------------------------------ server state
\* Python's None, among records and among strings.
None == [none |-> TRUE]
NoneStr == "None"

\* The request slots: at most MaxConcurrent requests are in progress at once.
Reqs == 1 .. MaxConcurrent
Idle == [op |-> "none", pc |-> "idle"]

\* The document create_project inserts: Project(name=...).dict(), lines 207-218.
\* The fields name, created_at, updated_at, audio_filename, audio_duration and
\* audio_data are not tracked.
NewProject ==
    [ exists                |-> TRUE,
      status                |-> "draft",
      lyrics                |-> NoneStr,
      theme_description     |-> NoneStr,
      audio_analysis        |-> None,
      storyboard            |-> None,
      retained_render_style |-> NoneStr,
      video_url             |-> NoneStr ]

\* No request has been received: analyze_audio_file is called on its own.
NoServer ==
    /\ project = NewProject
    /\ req = [r \in Reqs |-> Idle]
    /\ tmp_files = {}
    /\ started = 0
    /\ api_key = FALSE

\* ------------------------------------------------------------ inputs
samples_per_segment == segment_duration * sr

SampleCounts ==
    { t * sr : t \in 0 .. MaxSeconds }
    \cup { k * samples_per_segment : k \in 0 .. MaxSegments }
    \cup { k * samples_per_segment + d : k \in 0 .. 2, d \in {1, sr \div 2} }

RECURSIVE CurvesOfLen(_)
CurvesOfLen(n) ==
    IF n = 0 THEN { << >> }
    ELSE { Append(c, e) : c \in CurvesOfLen(n - 1), e \in 0 .. MaxEnergy }

Curves == UNION { CurvesOfLen(n) : n \in 0 .. MaxFrames }

\* A beat train: count beats half a second apart, the first at tick first.
BeatGap == sr \div 2
BeatTrain(first, count) == [k \in 1 .. count |-> first + (k - 1) * BeatGap]

BeatTrains ==
    { BeatTrain(first, count) : first \in {0, BeatOffset * BeatGap, samples_per_segment},
                                count \in {0, MaxBeats - 1, MaxBeats} }

TempoInputs == { << >>, << 1172 >> }

\* The state at the call of analyze_audio_file on a file whose sample count is
\* one of tracks and whose rms curve is one of curves.
InitWith(tracks, curves) ==
    /\ load_ok \in BOOLEAN
    /\ y_len \in (IF load_ok THEN tracks ELSE {0})
    /\ rms \in (IF load_ok THEN curves ELSE {<< >>})
    /\ beat_times \in BeatTrains
    \* beat_track finds a tempo whenever it finds beats.
    /\ tempo_in \in (IF beat_times = << >> THEN TempoInputs ELSE { << 1172 >> })
    \* A failed load hands nothing over: one representative input.
    /\ ~load_ok => /\ y_len = 0
                   /\ rms = << >>
                   /\ beat_times = << >>
                   /\ tempo_in = << >>
    \* len(y) / sr is an exact float when it is a multiple of half a second,
    \* and then so is duration * sr; s / (len(y) / len(rms)) is exact when
    \* len(rms) divides len(y).
    /\ fp_trunc \in (IF load_ok /\ (2 * y_len) % sr # 0 THEN BOOLEAN ELSE {FALSE})
    /\ fp_quot \in (IF load_ok /\ Len(rms) > 0 /\ y_len % Len(rms) # 0
                    THEN BOOLEAN ELSE {FALSE})
    /\ pc = "start"
    /\ exc = ""
    /\ num_segments = 0
    /\ i = 0
    /\ start_time = 0
    /\ end_time = 0
    /\ start_frame = 0
    /\ end_frame = 0
    /\ avg_energy = Unbound
    /\ max_rms = Unbound
    /\ normalized_energy = Unbound
    /\ beat_density = Unbound
    /\ segments = << >>
    /\ result = NoResult
    /\ NoServer

Init == InitWith(SampleCounts, Curves)

\* The 64-second track of the scenario: eight whole blocks.
ScenarioTrack == 8 * samples_per_segment

\* Curves with at least one frame for each of the eight blocks, as every curve
\* of librosa has (1 + len(y) // 512 frames): the first frame at level e1, all
\* later frames at level e; uniform when e1 = e.
ScenarioCurves ==
    { [k \in 1 .. n |-> IF k = 1 THEN e1 ELSE e] :
          n \in 8 .. 8 + MaxFrames, e1 \in 0 .. MaxEnergy, e \in 0 .. MaxEnergy }

InitScenario == InitWith({ScenarioTrack}, ScenarioCurves)

\* A long curve of 40 * FullScale + 1 frames: one frame at full scale, a frames
\* one level lower, the rest two levels lower.  Its mean moves in steps of
\* about a thousandth of the largest frame.
FineCurve(a) ==
    [k \in 1 .. 40 * FullScale + 1 |->
        IF k = 1 THEN FullScale ELSE IF k <= 1 + a THEN FullScale - 1 ELSE FullScale - 2]

FineCurves == { FineCurve(a) : a \in 19 * FullScale .. 21 * FullScale }

InitRounding == InitWith({samples_per_segment, 2 * samples_per_segment}, FineCurves)

\* ------------------------------------------------- analyze_audio_file
\* duration = librosa.get_duration(y=y, sr=sr), in ticks.
duration == y_len

\* tempo after lines 87-90, in tenths of bpm.
Tempo == IF Len(tempo_in) > 0 THEN tempo_in[1] ELSE 1200

\* Lines 76-101: load, features, block count.  len(y) / len(rms) raises
\* ZeroDivisionError on an empty curve; a failed load raises in librosa.
Extract ==
    /\ pc = "start"
    /\ IF ~load_ok
       THEN /\ pc' = "except"
            /\ exc' = "LoadError"
            /\ UNCHANGED num_segments
       ELSE IF Len(rms) = 0
       THEN /\ pc' = "except"
            /\ exc' = "ZeroDivisionError"
            /\ num_segments' = CeilDiv(duration, samples_per_segment)
       ELSE /\ pc' = "loop"
            /\ exc' = ""
            /\ num_segments' = CeilDiv(duration, samples_per_segment)
    /\ UNCHANGED << inputs, locals, i, segments, result, server >>

\* Variant: the index of the block's last sample, int(end_time * sr) - 1.
EndSampleInclusive(e) == e - 1

\* int(end_time * sr), lines 105 and 109: exact for a block boundary, the
\* float product duration * sr for a truncated last block.
EndSample(e) ==
    IF e = duration /\ fp_trunc THEN e - 1 ELSE e

\* int(s / rms_per_frame), lines 101, 113, 114.
FrameIndex(s) ==
    LET q == (s * Len(rms)) \div y_len
    IN  IF fp_quot /\ s > 0 /\ (s * Len(rms)) % y_len = 0 THEN q - 1 ELSE q

\* rms[a:b], line 115.
Slice(s, a, b) == SubSeq(s, a + 1, Min(b, Len(s)))

\* Line 116.
AvgEnergy(segment_rms) ==
    IF Len(segment_rms) > 0
    THEN [n |-> SumSeq(segment_rms), d |-> Len(segment_rms) * FullScale]
    ELSE [n |-> 1, d |-> 2]

\* Variant: the energy left on the absolute scale, max_rms = 1.0.
MaxRmsFullScale == [n |-> 1, d |-> 1]

\* Line 119.
MaxRms ==
    IF MaxSeq(rms) > 0 THEN [n |-> MaxSeq(rms), d |-> FullScale]
    ELSE [n |-> 1, d |-> 1]

\* Line 120.
Normalize(avg, mx) == [n |-> avg.n * mx.d, d |-> avg.d * mx.n]

\* Variant: a closed interval, start_time <= b <= end_time.
SegmentBeatsClosed(s, e) == SelectSeq(beat_times, LAMBDA b : s <= b /\ b <= e)

\* Line 123.
SegmentBeats(s, e) == SelectSeq(beat_times, LAMBDA b : s <= b /\ b < e)

\* Line 124: the count over segment_duration, in beats per second.
BeatDensity(segment_beats) ==
    [n |-> Len(segment_beats), d |-> segment_duration]

\* Variant: inclusive thresholds, >= 0.7 and >= 0.4.
IntensityInclusive(ne) ==
    IF ~Lt(ne, 7, 10) THEN "high"
    ELSE IF ~Lt(ne, 4, 10) THEN "medium"
    ELSE "low"

\* Lines 127-132.
Intensity(ne) ==
    IF Gt(ne, 7, 10) THEN "high"
    ELSE IF Gt(ne, 4, 10) THEN "medium"
    ELSE "low"

\* Variant: the energy rules tried before the position rules.
SectionTypeEnergyFirst(idx, total, ne, bd) ==
    LET position_ratio == [n |-> idx, d |-> total]
    IN  IF Gt(ne, 6, 10) /\ Gt(bd, 15, 10) THEN "chorus"
        ELSE IF Lt(ne, 3, 10) THEN "bridge"
        ELSE IF Lt(position_ratio, 1, 10) THEN "intro"
        ELSE IF Gt(position_ratio, 9, 10) THEN "outro"
        ELSE "verse"

\* Variant: the outro rule inclusive, position_ratio >= 0.9.
SectionTypeOutroInclusive(idx, total, ne, bd) ==
    LET position_ratio == [n |-> idx, d |-> total]
    IN  IF Lt(position_ratio, 1, 10) THEN "intro"
        ELSE IF ~Lt(position_ratio, 9, 10) THEN "outro"
        ELSE IF Gt(ne, 6, 10) /\ Gt(bd, 15, 10) THEN "chorus"
        ELSE IF Lt(ne, 3, 10) THEN "bridge"
        ELSE "verse"

\* Lines 135-145.
SectionType(idx, total, ne, bd) ==
    LET position_ratio == [n |-> idx, d |-> total]
    IN  IF Lt(position_ratio, 1, 10) THEN "intro"
        ELSE IF Gt(position_ratio, 9, 10) THEN "outro"
        ELSE IF Gt(ne, 6, 10) /\ Gt(bd, 15, 10) THEN "chorus"
        ELSE IF Lt(ne, 3, 10) THEN "bridge"
        ELSE "verse"

\* Variant: the labels decided from the values as stored, after rounding.
SegmentRecordFromStored(idx, s, e, ne, bd, nbeats, total) ==
    LET stored_energy == [n |-> Round(ne.n, ne.d, 3), d |-> 1000]
        stored_density == [n |-> Round(bd.n, bd.d, 2), d |-> 100]
    IN  [ segment_number   |-> idx + 1,
          start_time       |-> Round(s, sr, 2),
          end_time         |-> Round(e, sr, 2),
          energy           |-> stored_energy.n,
          intensity        |-> Intensity(stored_energy),
          beat_density     |-> stored_density.n,
          beats_in_segment |-> nbeats,
          section_type     |-> SectionType(idx, total, stored_energy, stored_density) ]

\* Lines 147-156.
SegmentRecord(idx, s, e, ne, bd, nbeats, total) ==
    [ segment_number   |-> idx + 1,
      start_time       |-> Round(s, sr, 2),
      end_time         |-> Round(e, sr, 2),
      energy           |-> Round(ne.n, ne.d, 3),
      intensity        |-> Intensity(ne),
      beat_density     |-> Round(bd.n, bd.d, 2),
      beats_in_segment |-> nbeats,
      section_type     |-> SectionType(idx, total, ne, bd) ]

\* Variant: a block shorter than segment_duration is not kept.
AppendedFullOnly(segs, rec) ==
    IF rec.end_time - rec.start_time = segment_duration * 100
    THEN Append(segs, rec) ELSE segs

\* segments.append(...), line 147.
Appended(segs, rec) == Append(segs, rec)

\* Lines 103-156: one iteration of the loop.
LoopBody ==
    /\ pc = "loop"
    /\ i < num_segments
    /\ LET s == i * samples_per_segment
           e == Min((i + 1) * samples_per_segment, duration)
           sf == FrameIndex(s)
           ef == FrameIndex(EndSample(e))
           avg == AvgEnergy(Slice(rms, sf, ef))
           mx == MaxRms
           ne == Normalize(avg, mx)
           sb == SegmentBeats(s, e)
           bd == BeatDensity(sb)
       IN  /\ start_time' = s
           /\ end_time' = e
           /\ start_frame' = sf
           /\ end_frame' = ef
           /\ avg_energy' = avg
           /\ max_rms' = mx
           /\ normalized_energy' = ne
           /\ beat_density' = bd
           /\ segments' = Appended(segments,
                                   SegmentRecord(i, s, e, ne, bd, Len(sb), num_segments))
    /\ i' = i + 1
    /\ UNCHANGED << inputs, pc, exc, num_segments, result, server >>

\* beat_times[:50], line 162.
Prefix(s, n) == SubSeq(s, 1, Min(n, Len(s)))

\* Lines 158-167.
HappyResult ==
    [ duration     |-> Round(duration, sr, 2),
      tempo        |-> Tempo,
      total_beats  |-> Len(beat_times),
      beat_times   |-> Prefix(beat_times, BeatSample),
      num_segments |-> num_segments,
      segments     |-> segments,
      avg_energy   |-> Round(SumSeq(rms) * max_rms.d,
                             Len(rms) * FullScale * max_rms.n, 3) ]

\* Lines 158-167: the return after the loop.  max_rms is assigned only in the
\* loop body, so reading it after zero iterations raises UnboundLocalError.
Return ==
    /\ pc = "loop"
    /\ i = num_segments
    /\ IF max_rms = Unbound
       THEN /\ pc' = "except"
            /\ exc' = "UnboundLocalError"
            /\ UNCHANGED result
       ELSE /\ pc' = "done"
            /\ exc' = ""
            /\ result' = HappyResult
    /\ UNCHANGED << inputs, locals, num_segments, i, segments, server >>

\* Variant: the fallback reports an empty track instead of the 3-minute default.
FallbackZero(e) ==
    [ duration     |-> 0,
      tempo        |-> 1200,
      total_beats  |-> 0,
      beat_times   |-> << >>,
      num_segments |-> 0,
      segments     |-> << >>,
      avg_energy   |-> 500,
      error        |-> e ]

\* Lines 172-183.
FallbackResult(e) ==
    [ duration     |-> FallbackDuration * 100,
      tempo        |-> 1200,
      total_beats  |-> FallbackDuration * 2,
      beat_times   |-> << >>,
      num_segments |-> FallbackDuration \div 8,
      segments     |-> << >>,
      avg_energy   |-> 500,
      error        |-> e ]

\* Lines 169-183: except Exception.
ExceptHandler ==
    /\ pc = "except"
    /\ pc' = "done"
    /\ exc' = ""
    /\ result' = FallbackResult(exc)
    /\ UNCHANGED << inputs, locals, num_segments, i, segments, server >>

Next ==
    \/ Extract
    \/ LoopBody
    \/ Return
    \/ ExceptHandler

Spec == Init /\ [][Next]_vars

\* The analysis of one- and two-block tracks with long curves.
SpecRounding == InitRounding /\ [][Next]_vars

\* The analysis of the 64-second track.
SpecScenario == InitScenario /\ [][Next]_vars

\* ------------------------------------------------------------- server
\* Requests are coroutines of one event loop: a step of a handler is the code
\* from one await to the next, so a step holds at most one database
\* operation.  analyze_audio_file is a plain call without an await: while it
\* runs (pc # "idle") no handler takes a step.

\* A database operation may raise (connection lost, document too large).
DbError == "PyMongoError"

\* update_one({"id": project_id}, {"$set": fields}): no document, no change.
Set(doc, fields) ==
    IF doc.exists
    THEN [k \in DOMAIN doc |-> IF k \in DOMAIN fields THEN fields[k] ELSE doc[k]]
    ELSE doc

\* bool(x) of an optional dict, and of an optional string.
Truthy(x) == x # None /\ DOMAIN x # {}
TruthyStr(x) == x # NoneStr /\ x # ""

\* A request that has ended with an HTTP error.
Failed(op, code, detail) ==
    [op |-> op, pc |-> "done", status_code |-> code, error |-> detail]

\* A slot is free for the next request: one whose request has ended, or the
\* first of the slots never used (they are all alike).
Free(r) ==
    /\ pc = "idle"
    /\ started < MaxRequests
    /\ \/ req[r].pc = "done"
       \/ req[r].pc = "idle" /\ \A q \in 1 .. r - 1 : req[q].pc # "idle"

\* Request r is in handler op, about to run the step named p.
At(r, op, p) ==
    /\ pc = "idle"
    /\ req[r].op = op
    /\ req[r].pc = p

\* The uploaded files: one librosa cannot read, and a track of one block at
\* full scale.
UploadFiles ==
    { [load_ok |-> FALSE, y_len |-> 0, rms |-> << >>, tempo_in |-> << >>],
      [load_ok |-> TRUE, y_len |-> samples_per_segment, rms |-> << FullScale >>,
       tempo_in |-> << 1172 >>] }

\* The locals of analyze_audio_file before a call and after its return.
FreshLocals ==
    /\ exc' = ""
    /\ num_segments' = 0
    /\ i' = 0
    /\ start_time' = 0
    /\ end_time' = 0
    /\ start_frame' = 0
    /\ end_frame' = 0
    /\ avg_energy' = Unbound
    /\ max_rms' = Unbound
    /\ normalized_energy' = Unbound
    /\ beat_density' = Unbound
    /\ segments' = << >>
    /\ result' = NoResult

\* analyze_audio_file(tmp_path) is entered, line 317.
CallAnalysis(file) ==
    /\ load_ok' = file.load_ok
    /\ y_len' = file.y_len
    /\ rms' = file.rms
    /\ beat_times' = << >>
    /\ tempo_in' = file.tempo_in
    /\ fp_trunc' = FALSE
    /\ fp_quot' = FALSE
    /\ pc' = "start"
    /\ FreshLocals

\* The frame of analyze_audio_file is gone.
LeaveAnalysis ==
    /\ load_ok' = FALSE
    /\ y_len' = 0
    /\ rms' = << >>
    /\ beat_times' = << >>
    /\ tempo_in' = << >>
    /\ fp_trunc' = FALSE
    /\ fp_quot' = FALSE
    /\ pc' = "idle"
    /\ FreshLocals

analyzer == << inputs, locals, pc, exc, num_segments, i, segments, result >>

\* ---- upload_audio, lines 298-344
\* Lines 300-306: find_one, the 404 and the file-type check.
UploadFind(r) ==
    /\ Free(r)
    /\ \E db_ok \in BOOLEAN, suffix_ok \in BOOLEAN, file \in UploadFiles :
         req' = [req EXCEPT ![r] =
                   IF ~db_ok THEN Failed("upload_audio", 500, DbError)
                   ELSE IF ~project.exists
                   THEN Failed("upload_audio", 404, "Project not found")
                   ELSE IF ~suffix_ok
                   THEN Failed("upload_audio", 400, "Supported formats")
                   ELSE [op |-> "upload_audio", pc |-> "read", file |-> file]]
    /\ started' = started + 1
    /\ UNCHANGED << project, tmp_files, api_key, analyzer >>

\* Lines 309-317: audio.read() has returned; the bytes are written to a
\* temporary file and analyze_audio_file is called on it.
UploadRead(r) ==
    /\ At(r, "upload_audio", "read")
    /\ tmp_files' = tmp_files \cup {r}
    /\ req' = [req EXCEPT ![r] = [op |-> "upload_audio", pc |-> "analyze"]]
    /\ CallAnalysis(req[r].file)
    /\ UNCHANGED << project, started, api_key >>

\* Lines 317-320: analyze_audio_file has returned its dict.
UploadAnalysed(r) ==
    /\ pc = "done"
    /\ req[r].op = "upload_audio"
    /\ req[r].pc = "analyze"
    /\ req' = [req EXCEPT ![r] =
                 [op |-> "upload_audio", pc |-> "store", analysis |-> result]]
    /\ LeaveAnalysis
    /\ UNCHANGED << project, tmp_files, started, api_key >>

\* The $set document of lines 325-331.
UploadSet(a) == [audio_analysis |-> a]

\* Variant: the temporary file removed after the return statement only.
UnlinkedOnSuccess(files, path, raised) ==
    IF raised THEN files ELSE files \ {path}

\* Lines 342-344: finally: os.unlink(tmp_path).
Unlinked(files, path, raised) == files \ {path}

\* Variant: a degraded analysis answered with an HTTP error and not stored.
UploadResponseStrict(a, db_ok) ==
    IF db_ok /\ "error" \notin DOMAIN a
    THEN [op |-> "upload_audio", pc |-> "done", status_code |-> 200,
          error |-> "", stored |-> TRUE, analysis |-> a]
    ELSE [op |-> "upload_audio", pc |-> "done", status_code |-> 500,
          error |-> IF db_ok THEN a.error ELSE DbError, stored |-> FALSE,
          analysis |-> a]

\* Lines 323-341: the outcome of the request once update_one has returned or
\* raised.
UploadResponse(a, db_ok) ==
    IF db_ok
    THEN [op |-> "upload_audio", pc |-> "done", status_code |-> 200,
          error |-> "", stored |-> TRUE, analysis |-> a]
    ELSE [op |-> "upload_audio", pc |-> "done", status_code |-> 500,
          error |-> DbError, stored |-> FALSE, analysis |-> a]

\* Lines 323-344: update_one, the response, and the finally clause.
UploadStore(r) ==
    /\ At(r, "upload_audio", "store")
    /\ \E db_ok \in BOOLEAN :
         LET response == UploadResponse(req[r].analysis, db_ok)
         IN  /\ project' = IF response.stored
                           THEN Set(project, UploadSet(req[r].analysis))
                           ELSE project
             /\ req' = [req EXCEPT ![r] = response]
             /\ tmp_files' = Unlinked(tmp_files, r, ~db_ok)
    /\ UNCHANGED << started, api_key, analyzer >>

\* ---- auto_generate_scenes, lines 355-529
\* What the language model may answer: the call raises, the text is not JSON,
\* the text is a JSON list of scenes.
LlmOutcomes == {"raises", "not_json", "scenes"}

\* The scenes of an answer, as stored: two of them, with the text of the model.
AiScenes == << [id |-> 1, description |-> "ai"], [id |-> 2, description |-> "ai"] >>

\* Lines 388-402: the default segments, times in hundredths of a second.
DefaultSegments(d) ==
    [k \in 1 .. (d \div (DefaultBlock * 100)) |->
        [ segment_number |-> k,
          start_time     |-> (k - 1) * DefaultBlock * 100,
          end_time       |-> Min(k * DefaultBlock * 100, d),
          intensity      |-> "medium",
          section_type   |-> "verse",
          energy         |-> 500 ]]

\* Lines 387-402: the segments the prompt is built from.
PromptSegments(a) ==
    LET stored == IF "segments" \in DOMAIN a THEN a.segments ELSE << >>
    IN  IF stored # << >> THEN stored
        ELSE DefaultSegments(IF "duration" \in DOMAIN a THEN a.duration
                             ELSE FallbackDuration * 100)

\* Lines 365-371: find_one, the 404 and the 'upload audio first' check.
AutoGenerateFind(r) ==
    /\ Free(r)
    /\ \E db_ok \in BOOLEAN, lyrics \in {NoneStr, "words"} :
         req' = [req EXCEPT ![r] =
                   IF ~db_ok THEN Failed("auto_generate_scenes", 500, DbError)
                   ELSE IF ~project.exists
                   THEN Failed("auto_generate_scenes", 404, "Project not found")
                   ELSE IF ~Truthy(project.audio_analysis)
                   THEN Failed("auto_generate_scenes", 400, "Upload audio first")
                   ELSE [op |-> "auto_generate_scenes", pc |-> "mark",
                         audio_analysis |-> project.audio_analysis,
                         lyrics |-> IF TruthyStr(lyrics) THEN lyrics
                                    ELSE project.lyrics]]
    /\ started' = started + 1
    /\ UNCHANGED << project, tmp_files, api_key, analyzer >>

\* Lines 374-402: the status set to 'processing', then the key check and the
\* segments, up to the call of the language model.
AutoGenerateMark(r) ==
    /\ At(r, "auto_generate_scenes", "mark")
    /\ \E db_ok \in BOOLEAN :
         IF ~db_ok
         THEN /\ req' = [req EXCEPT ![r] =
                           [op |-> "auto_generate_scenes", pc |-> "done",
                            status_code |-> 500, error |-> DbError, wrote |-> NoneStr]]
              /\ UNCHANGED project
         ELSE /\ project' = Set(project, [status |-> "processing"])
              /\ req' = [req EXCEPT ![r] =
                           IF ~api_key
                           THEN [op |-> "auto_generate_scenes", pc |-> "fail",
                                 wrote |-> "processing",
                                 exc |-> "LLM API key not configured"]
                           ELSE [op |-> "auto_generate_scenes", pc |-> "llm",
                                 wrote |-> "processing",
                                 segments |-> PromptSegments(req[r].audio_analysis),
                                 lyrics |-> req[r].lyrics]]
    /\ UNCHANGED << tmp_files, started, api_key, analyzer >>

\* Lines 470-500: the answer of the language model, parsed.
AutoGenerateLlm(r) ==
    /\ At(r, "auto_generate_scenes", "llm")
    /\ \E outcome \in LlmOutcomes :
         req' = [req EXCEPT ![r] =
                   IF outcome = "scenes"
                   THEN [op |-> "auto_generate_scenes", pc |-> "save",
                         wrote |-> req[r].wrote,
                         storyboard |-> [scenes |-> AiScenes],
                         lyrics |-> req[r].lyrics]
                   ELSE [op |-> "auto_generate_scenes", pc |-> "fail",
                         wrote |-> req[r].wrote,
                         exc |-> IF outcome = "not_json" THEN "JSONDecodeError"
                                 ELSE "LlmError"]]
    /\ UNCHANGED << project, tmp_files, started, api_key, analyzer >>

\* Variant: the stored analysis cleared along with the new storyboard.
AutoGenerateSetClearsAnalysis(storyboard, lyrics) ==
    [ storyboard            |-> storyboard,
      status                |-> "storyboard_ready",
      lyrics                |-> lyrics,
      retained_render_style |-> "cinematic photorealistic",
      audio_analysis        |-> None ]

\* The $set document of lines 505-511.
AutoGenerateSet(storyboard, lyrics) ==
    [ storyboard            |-> storyboard,
      status                |-> "storyboard_ready",
      lyrics                |-> lyrics,
      retained_render_style |-> "cinematic photorealistic" ]

\* Lines 503-520: the storyboard saved; a failure goes to the handlers.
AutoGenerateSave(r) ==
    /\ At(r, "auto_generate_scenes", "save")
    /\ \E db_ok \in BOOLEAN :
         IF db_ok
         THEN /\ project' = Set(project,
                                AutoGenerateSet(req[r].storyboard, req[r].lyrics))
              /\ req' = [req EXCEPT ![r] =
                           [op |-> "auto_generate_scenes", pc |-> "done",
                            status_code |-> 200, error |-> "",
                            wrote |-> "storyboard_ready"]]
         ELSE /\ req' = [req EXCEPT ![r] =
                           [op |-> "auto_generate_scenes", pc |-> "fail",
                            wrote |-> req[r].wrote, exc |-> DbError]]
              /\ UNCHANGED project
    /\ UNCHANGED << tmp_files, started, api_key, analyzer >>

\* Variant: a parse failure answered without touching the status.
DraftSetUnlessParse(e) ==
    IF e = "JSONDecodeError" THEN << >> ELSE [status |-> "draft"]

\* The $set document of the except handlers, lines 524, 528 and 752-755.
DraftSet(e) == [status |-> "draft"]

\* The status a $set document writes, or the one written before.
Wrote(fields, before) ==
    IF "status" \in DOMAIN fields THEN fields.status ELSE before

\* Lines 522-529: both handlers reset the status and answer 500.
AutoGenerateFail(r) ==
    /\ At(r, "auto_generate_scenes", "fail")
    /\ \E db_ok \in BOOLEAN :
         IF db_ok
         THEN /\ project' = Set(project, DraftSet(req[r].exc))
              /\ req' = [req EXCEPT ![r] =
                           [op |-> "auto_generate_scenes", pc |-> "done",
                            status_code |-> 500, error |-> req[r].exc,
                            wrote |-> Wrote(DraftSet(req[r].exc), req[r].wrote)]]
         ELSE /\ req' = [req EXCEPT ![r] =
                           [op |-> "auto_generate_scenes", pc |-> "done",
                            status_code |-> 500, error |-> DbError,
                            wrote |-> req[r].wrote]]
              /\ UNCHANGED project
    /\ UNCHANGED << tmp_files, started, api_key, analyzer >>

\* ---- generate_storyboard, lines 625-756
\* Lines 627-635: find_one, the 404 and the two 400 checks.
StoryboardFind(r) ==
    /\ Free(r)
    /\ \E db_ok \in BOOLEAN :
         req' = [req EXCEPT ![r] =
                   IF ~db_ok THEN Failed("generate_storyboard", 500, DbError)
                   ELSE IF ~project.exists
                   THEN Failed("generate_storyboard", 404, "Project not found")
                   ELSE IF ~TruthyStr(project.lyrics)
                   THEN Failed("generate_storyboard", 400, "Lyrics are required")
                   ELSE IF ~Truthy(project.audio_analysis)
                   THEN Failed("generate_storyboard", 400, "Audio must be uploaded first")
                   ELSE [op |-> "generate_storyboard", pc |-> "mark"]]
    /\ started' = started + 1
    /\ UNCHANGED << project, tmp_files, api_key, analyzer >>

\* Lines 638-648: the status set to 'processing', then the key check.
StoryboardMark(r) ==
    /\ At(r, "generate_storyboard", "mark")
    /\ \E db_ok \in BOOLEAN :
         IF ~db_ok
         THEN /\ req' = [req EXCEPT ![r] =
                           [op |-> "generate_storyboard", pc |-> "done",
                            status_code |-> 500, error |-> DbError, wrote |-> NoneStr]]
              /\ UNCHANGED project
         ELSE /\ project' = Set(project, [status |-> "processing"])
              /\ req' = [req EXCEPT ![r] =
                           IF ~api_key
                           THEN [op |-> "generate_storyboard", pc |-> "fail",
                                 wrote |-> "processing",
                                 exc |-> "LLM API key not configured"]
                           ELSE [op |-> "generate_storyboard", pc |-> "llm",
                                 wrote |-> "processing"]]
    /\ UNCHANGED << tmp_files, started, api_key, analyzer >>

\* Lines 706-731: the answer parsed; the inner handler turns a parse failure
\* into an HTTPException, which the outer handler catches like any other.
StoryboardLlm(r) ==
    /\ At(r, "generate_storyboard", "llm")
    /\ \E outcome \in LlmOutcomes :
         req' = [req EXCEPT ![r] =
                   IF outcome = "scenes"
                   THEN [op |-> "generate_storyboard", pc |-> "save",
                         wrote |-> req[r].wrote,
                         storyboard |-> [scenes |-> AiScenes]]
                   ELSE [op |-> "generate_storyboard", pc |-> "fail",
                         wrote |-> req[r].wrote,
                         exc |-> IF outcome = "not_json"
                                 THEN "Failed to parse AI response"
                                 ELSE "LlmError"]]
    /\ UNCHANGED << project, tmp_files, started, api_key, analyzer >>

\* The $set document of lines 736-740.
StoryboardSet(storyboard) ==
    [storyboard |-> storyboard, status |-> "storyboard_ready"]

\* Lines 734-743.
StoryboardSave(r) ==
    /\ At(r, "generate_storyboard", "save")
    /\ \E db_ok \in BOOLEAN :
         IF db_ok
         THEN /\ project' = Set(project, StoryboardSet(req[r].storyboard))
              /\ req' = [req EXCEPT ![r] =
                           [op |-> "generate_storyboard", pc |-> "done",
                            status_code |-> 200, error |-> "",
                            wrote |-> "storyboard_ready"]]
         ELSE /\ req' = [req EXCEPT ![r] =
                           [op |-> "generate_storyboard", pc |-> "fail",
                            wrote |-> req[r].wrote, exc |-> DbError]]
              /\ UNCHANGED project
    /\ UNCHANGED << tmp_files, started, api_key, analyzer >>

\* Lines 750-756.
StoryboardFail(r) ==
    /\ At(r, "generate_storyboard", "fail")
    /\ \E db_ok \in BOOLEAN :
         IF db_ok
         THEN /\ project' = Set(project, DraftSet(req[r].exc))
              /\ req' = [req EXCEPT ![r] =
                           [op |-> "generate_storyboard", pc |-> "done",
                            status_code |-> 500, error |-> req[r].exc,
                            wrote |-> Wrote(DraftSet(req[r].exc), req[r].wrote)]]
         ELSE /\ req' = [req EXCEPT ![r] =
                           [op |-> "generate_storyboard", pc |-> "done",
                            status_code |-> 500, error |-> DbError,
                            wrote |-> req[r].wrote]]
              /\ UNCHANGED project
    /\ UNCHANGED << tmp_files, started, api_key, analyzer >>

\* ---- update_single_scene, lines 533-562 (update_scene, lines 759-787, is a
\* second handler of the same route with the same body)
\* storyboard[k][key] = value for the scene with the given id.
EditScene(scenes, scene_id, text) ==
    [k \in 1 .. Len(scenes) |->
        IF scenes[k].id = scene_id THEN [scenes[k] EXCEPT !.description = text]
        ELSE scenes[k]]

\* Lines 536-552: find_one and the edit of the local copy.  The document always
\* has the key "storyboard", so get("storyboard", []) of a project without a
\* storyboard is None and enumerate(None) raises TypeError.
UpdateSceneFind(r) ==
    /\ Free(r)
    /\ \E db_ok \in BOOLEAN, scene_id \in 1 .. Len(AiScenes) + 1 :
         req' = [req EXCEPT ![r] =
                   IF ~db_ok THEN Failed("update_single_scene", 500, DbError)
                   ELSE IF ~project.exists
                   THEN Failed("update_single_scene", 404, "Project not found")
                   ELSE IF project.storyboard = None
                   THEN Failed("update_single_scene", 500, "TypeError")
                   ELSE IF \A k \in 1 .. Len(project.storyboard.scenes) :
                               project.storyboard.scenes[k].id # scene_id
                   THEN Failed("update_single_scene", 404, "Scene not found")
                   ELSE [op |-> "update_single_scene", pc |-> "write",
                         scene_id |-> scene_id,
                         storyboard |->
                             [scenes |-> EditScene(project.storyboard.scenes,
                                                   scene_id, "user")]]]
    /\ started' = started + 1
    /\ UNCHANGED << project, tmp_files, api_key, analyzer >>

\* Lines 554-562: the whole storyboard written back; the response names the
\* scene that was edited.
UpdateSceneWrite(r) ==
    /\ At(r, "update_single_scene", "write")
    /\ \E db_ok \in BOOLEAN :
         IF db_ok
         THEN /\ project' = Set(project, [storyboard |-> req[r].storyboard])
              /\ req' = [req EXCEPT ![r] =
                           [op |-> "update_single_scene", pc |-> "done",
                            status_code |-> 200, error |-> "",
                            scene_id |-> req[r].scene_id]]
         ELSE /\ req' = [req EXCEPT ![r] =
                           Failed("update_single_scene", 500, DbError)]
              /\ UNCHANGED project
    /\ UNCHANGED << tmp_files, started, api_key, analyzer >>

\* ---- the handlers that find the project and set fields of their own
\* Lines 279-281, 569-571, 593-595, 610-612, 916-921: find_one and the checks.
\* needs_storyboard is the extra check of generate_video.
Found(op, db_ok, needs_storyboard, fields) ==
    IF ~db_ok THEN Failed(op, 500, DbError)
    ELSE IF ~project.exists THEN Failed(op, 404, "Project not found")
    ELSE IF needs_storyboard
            /\ (project.storyboard = None \/ project.storyboard.scenes = << >>)
    THEN Failed(op, 400, "Storyboard must be generated first")
    ELSE [op |-> op, pc |-> "write", fields |-> fields]

\* update_one has returned or raised; the handler answers.
Written(op, db_ok) ==
    IF db_ok THEN [op |-> op, pc |-> "done", status_code |-> 200, error |-> ""]
    ELSE Failed(op, 500, DbError)

\* update_project, lines 279-284: update_data holds the fields that are not None.
UpdateProjectFind(r) ==
    /\ Free(r)
    /\ \E db_ok \in BOOLEAN, lyrics \in {NoneStr, "words"}, theme \in {"theme"} :
         LET update == [lyrics |-> lyrics, theme_description |-> theme]
             update_data == [k \in {f \in DOMAIN update : update[f] # NoneStr} |->
                                update[k]]
         IN  req' = [req EXCEPT ![r] = Found("update_project", db_ok, FALSE, update_data)]
    /\ started' = started + 1
    /\ UNCHANGED << project, tmp_files, api_key, analyzer >>

\* update_project, line 286.
UpdateProjectWrite(r) ==
    /\ At(r, "update_project", "write")
    /\ \E db_ok \in BOOLEAN :
         /\ project' = IF db_ok THEN Set(project, req[r].fields) ELSE project
         /\ req' = [req EXCEPT ![r] =
                      IF db_ok THEN [op |-> "update_project", pc |-> "reread"]
                      ELSE Failed("update_project", 500, DbError)]
    /\ UNCHANGED << tmp_files, started, api_key, analyzer >>

\* update_project, lines 287-288: the document read again and validated as a
\* Project.  A stored analysis has none of the fields beats, sections and
\* energy_profile that AudioAnalysis requires (lines 199-204).
UpdateProjectReread(r) ==
    /\ At(r, "update_project", "reread")
    /\ \E db_ok \in BOOLEAN :
         req' = [req EXCEPT ![r] =
                   IF ~db_ok THEN Failed("update_project", 500, DbError)
                   ELSE IF ~project.exists
                   THEN Failed("update_project", 500, "TypeError")
                   ELSE IF project.audio_analysis # None
                   THEN Failed("update_project", 500, "ValidationError")
                   ELSE [op |-> "update_project", pc |-> "done",
                         status_code |-> 200, error |-> ""]]
    /\ UNCHANGED << project, tmp_files, started, api_key, analyzer >>

\* save_lyrics, lines 593-595.
SaveLyricsFind(r) ==
    /\ Free(r)
    /\ \E db_ok \in BOOLEAN :
         req' = [req EXCEPT ![r] =
                   Found("save_lyrics", db_ok, FALSE, [lyrics |-> "words"])]
    /\ started' = started + 1
    /\ UNCHANGED << project, tmp_files, api_key, analyzer >>

\* save_lyrics, lines 597-605.
SaveLyricsWrite(r) ==
    /\ At(r, "save_lyrics", "write")
    /\ \E db_ok \in BOOLEAN :
         /\ project' = IF db_ok THEN Set(project, req[r].fields) ELSE project
         /\ req' = [req EXCEPT ![r] = Written("save_lyrics", db_ok)]
    /\ UNCHANGED << tmp_files, started, api_key, analyzer >>

\* save_theme, lines 610-612.
SaveThemeFind(r) ==
    /\ Free(r)
    /\ \E db_ok \in BOOLEAN :
         req' = [req EXCEPT ![r] =
                   Found("save_theme", db_ok, FALSE, [theme_description |-> "theme"])]
    /\ started' = started + 1
    /\ UNCHANGED << project, tmp_files, api_key, analyzer >>

\* save_theme, lines 614-622.
SaveThemeWrite(r) ==
    /\ At(r, "save_theme", "write")
    /\ \E db_ok \in BOOLEAN :
         /\ project' = IF db_ok THEN Set(project, req[r].fields) ELSE project
         /\ req' = [req EXCEPT ![r] = Written("save_theme", db_ok)]
    /\ UNCHANGED << tmp_files, started, api_key, analyzer >>

\* retain_render_style, lines 569-571.
RetainStyleFind(r) ==
    /\ Free(r)
    /\ \E db_ok \in BOOLEAN :
         req' = [req EXCEPT ![r] =
                   Found("retain_render_style", db_ok, FALSE,
                         [retained_render_style |-> "anime"])]
    /\ started' = started + 1
    /\ UNCHANGED << project, tmp_files, api_key, analyzer >>

\* retain_render_style, lines 573-588: the project, then the user preferences
\* (a collection of its own, not tracked; its update may raise as well).
RetainStyleWrite(r) ==
    /\ At(r, "retain_render_style", "write")
    /\ \E db_ok \in BOOLEAN, prefs_ok \in BOOLEAN :
         /\ project' = IF db_ok THEN Set(project, req[r].fields) ELSE project
         /\ req' = [req EXCEPT ![r] = Written("retain_render_style", db_ok /\ prefs_ok)]
    /\ UNCHANGED << tmp_files, started, api_key, analyzer >>

\* generate_video, lines 916-921.
GenerateVideoFind(r) ==
    /\ Free(r)
    /\ \E db_ok \in BOOLEAN :
         req' = [req EXCEPT ![r] =
                   Found("generate_video", db_ok, TRUE,
                         [status |-> "video_ready", video_url |-> "mock://video-ready"])]
    /\ started' = started + 1
    /\ UNCHANGED << project, tmp_files, api_key, analyzer >>

\* generate_video, lines 924-936.
GenerateVideoWrite(r) ==
    /\ At(r, "generate_video", "write")
    /\ \E db_ok \in BOOLEAN :
         /\ project' = IF db_ok THEN Set(project, req[r].fields) ELSE project
         /\ req' = [req EXCEPT ![r] = Written("generate_video", db_ok)]
    /\ UNCHANGED << tmp_files, started, api_key, analyzer >>

\* The project after delete_one: no document.
Deleted == [NewProject EXCEPT !.exists = FALSE]

\* delete_project, lines 290-295.
DeleteProject(r) ==
    /\ Free(r)
    /\ \E db_ok \in BOOLEAN :
         /\ project' = IF db_ok THEN Deleted ELSE project
         /\ req' = [req EXCEPT ![r] =
                      IF ~db_ok THEN Failed("delete_project", 500, DbError)
                      ELSE IF ~project.exists
                      THEN Failed("delete_project", 404, "Project not found")
                      ELSE [op |-> "delete_project", pc |-> "done",
                            status_code |-> 200, error |-> ""]]
    /\ started' = started + 1
    /\ UNCHANGED << tmp_files, api_key, analyzer >>

\* ---- the server as a whole
\* A project has been created; no request has been received yet.
InitServerWith(doc) ==
    /\ load_ok = FALSE
    /\ y_len = 0
    /\ rms = << >>
    /\ beat_times = << >>
    /\ tempo_in = << >>
    /\ fp_trunc = FALSE
    /\ fp_quot = FALSE
    /\ pc = "idle"
    /\ exc = ""
    /\ num_segments = 0
    /\ i = 0
    /\ start_time = 0
    /\ end_time = 0
    /\ start_frame = 0
    /\ end_frame = 0
    /\ avg_energy = Unbound
    /\ max_rms = Unbound
    /\ normalized_energy = Unbound
    /\ beat_density = Unbound
    /\ segments = << >>
    /\ result = NoResult
    /\ project = doc
    /\ req = [r \in Reqs |-> Idle]
    /\ tmp_files = {}
    /\ started = 0
    /\ api_key \in BOOLEAN

InitServer == InitServerWith(NewProject)

\* The document after an upload of an unreadable file and a successful
\* auto_generate_scenes without lyrics: the stored analysis is the fallback,
\* the storyboard holds the generated scenes.
StoryboardReady ==
    Set(Set(NewProject, UploadSet(FallbackResult("LoadError"))),
        AutoGenerateSet([scenes |-> AiScenes], NoneStr))

\* The server once the project has its storyboard and both of those requests
\* have been answered; the requests are counted from here.
InitScenes == InitServerWith(StoryboardReady)

NextServer ==
    \/ Extract
    \/ LoopBody
    \/ Return
    \/ ExceptHandler
    \/ \E r \in Reqs :
         \/ UploadFind(r)
         \/ UploadRead(r)
         \/ UploadAnalysed(r)
         \/ UploadStore(r)
         \/ AutoGenerateFind(r)
         \/ AutoGenerateMark(r)
         \/ AutoGenerateLlm(r)
         \/ AutoGenerateSave(r)
         \/ AutoGenerateFail(r)
         \/ StoryboardFind(r)
         \/ StoryboardMark(r)
         \/ StoryboardLlm(r)
         \/ StoryboardSave(r)
         \/ StoryboardFail(r)
         \/ UpdateSceneFind(r)
         \/ UpdateSceneWrite(r)
         \/ UpdateProjectFind(r)
         \/ UpdateProjectWrite(r)
         \/ UpdateProjectReread(r)
         \/ SaveLyricsFind(r)
         \/ SaveLyricsWrite(r)
         \/ SaveThemeFind(r)
         \/ SaveThemeWrite(r)
         \/ RetainStyleFind(r)
         \/ RetainStyleWrite(r)
         \/ GenerateVideoFind(r)
         \/ GenerateVideoWrite(r)
         \/ DeleteProject(r)

SpecServer == InitServer /\ [][NextServer]_vars

\* The same server, started where scenes can be edited.
SpecScenes == InitScenes /\ [][NextServer]_vars

\* ------------------------------------------------------------ claims
\* The call has returned.
Returned == pc = "done"
\* The result is the fallback of the except handler: it alone carries the
\* error text.
Degraded == "error" \in DOMAIN result
\* The iteration that has just run appended segments[i]; the locals hold its
\* unrounded values.
Iterated == i > 0 /\ normalized_energy # Unbound /\ Len(segments) = i

\* C1: a track with duration > 0 and a non-empty rms curve comes back with
\* exactly ceil(duration / 8) segments; segment k (1-based) starts at 8(k-1)
\* seconds and ends at min(8k, duration), so the segments tile [0, duration)
\* and only the last one may be shorter than 8 seconds.  The record holds
\* the two times rounded to the nearest hundredth of a second.
C1_SegmentsTileDuration ==
    /\ Iterated =>
          /\ start_time = segment_duration * sr * (i - 1)
          /\ end_time = Min(segment_duration * sr * i, y_len)
          /\ start_time < end_time
          /\ segments[i].segment_number = i
          /\ segments[i].start_time = 800 * (i - 1)
          /\ 2 * (100 * end_time - segments[i].end_time * sr) <= sr
          /\ 2 * (segments[i].end_time * sr - 100 * end_time) <= sr
    /\ (Returned /\ load_ok /\ y_len > 0 /\ Len(rms) > 0) =>
          LET segs == result.segments
              cnt == Len(segs)
          IN  /\ ~Degraded
              /\ cnt >= 1
              /\ segment_duration * sr * (cnt - 1) < y_len
              /\ y_len <= segment_duration * sr * cnt
              /\ 2 * (100 * y_len - result.duration * sr) <= sr
              /\ 2 * (result.duration * sr - 100 * y_len) <= sr
              /\ \A k \in 1 .. cnt :
                    /\ segs[k].segment_number = k
                    /\ segs[k].start_time = 800 * (k - 1)
                    /\ k < cnt => segs[k].end_time = 800 * k
                    /\ k < cnt => segs[k].end_time = segs[k + 1].start_time
              /\ segs[cnt].end_time = result.duration

\* C1 witness: the 20-second track gives [0,8) [8,16) [16,20).
C1_Witness ==
    /\ Returned /\ ~Degraded
    /\ y_len = 20 * sr
    /\ Len(result.segments) = 3
    /\ result.segments[2].end_time = 1600
    /\ result.segments[3].start_time = 1600
    /\ result.segments[3].end_time = 2000

\* C2: every segment's normalized energy lies in [0, 1], also when its
\* frame range is empty and when the curve is all zero.
C2_NormalizedEnergyInUnitInterval ==
    Iterated =>
        /\ normalized_energy.d > 0
        /\ 0 <= normalized_energy.n
        /\ normalized_energy.n <= normalized_energy.d

\* C3: a failed extraction does not raise; the call returns the degraded
\* result: flagged by its error text, duration 180.0, tempo 120.0, no segments.
C3_FailureGivesFallback ==
    /\ exc # "" => pc = "except"
    /\ Returned => result # NoResult
    /\ (Returned /\ ~load_ok) => Degraded
    /\ (Returned /\ Degraded) =>
        /\ result.duration = 18000
        /\ result.tempo = 1200
        /\ result.segments = << >>

\* C3 witness: a failed load has been handled.
C3_Witness == Returned /\ ~load_ok /\ Degraded /\ result.error = "LoadError"

\* C4 as stated: in every result, fallback included, the segments are
\* non-empty whenever the returned duration is greater than 0.
C4_SegmentsNonEmptyInEveryResult ==
    (Returned /\ result.duration > 0) => Len(result.segments) > 0

\* C4 amended: in every result that is not the degraded fallback, the
\* segments are non-empty whenever the returned duration is greater than 0.
C4_SegmentsNonEmptyWhenNotDegraded ==
    (Returned /\ ~Degraded /\ result.duration > 0) => Len(result.segments) > 0

\* C4 witness: a track shorter than one block comes back with its one segment.
C4_Witness ==
    /\ Returned /\ ~Degraded
    /\ 0 < y_len /\ y_len < segment_duration * sr
    /\ result.duration > 0
    /\ Len(result.segments) = 1

\* C5: intensity is high iff normalized_energy > 0.7, medium iff
\* 0.4 < normalized_energy <= 0.7, low iff normalized_energy <= 0.4.
C5_IntensityThresholds ==
    Iterated =>
        LET ne == normalized_energy
            it == segments[i].intensity
        IN  /\ it \in {"high", "medium", "low"}
            /\ it = "high" <=> 10 * ne.n > 7 * ne.d
            /\ it = "medium" <=> (10 * ne.n > 4 * ne.d /\ 10 * ne.n <= 7 * ne.d)
            /\ it = "low" <=> 10 * ne.n <= 4 * ne.d

\* C5 witness: a normalized energy of exactly 0.7 classified medium.
C5_Witness ==
    /\ Iterated
    /\ 10 * normalized_energy.n = 7 * normalized_energy.d
    /\ segments[i].intensity = "medium"

\* C6: section_type is the first rule that matches, in the order intro
\* (ratio < 0.10), outro (ratio > 0.90), chorus (energy > 0.6 and beat
\* density > 1.5), bridge (energy < 0.3), verse; ratio = index / total.
C6_SectionFirstMatch ==
    Iterated =>
        LET ne == normalized_energy
            bd == beat_density
            idx == i - 1
            st == segments[i].section_type
            intro == 10 * idx < num_segments
            outro == 10 * idx > 9 * num_segments
            chorus == 10 * ne.n > 6 * ne.d /\ 10 * bd.n > 15 * bd.d
            bridge == 10 * ne.n < 3 * ne.d
        IN  /\ st = "intro" <=> intro
            /\ st = "outro" <=> (~intro /\ outro)
            /\ st = "chorus" <=> (~intro /\ ~outro /\ chorus)
            /\ st = "bridge" <=> (~intro /\ ~outro /\ ~chorus /\ bridge)
            /\ st = "verse" <=> (~intro /\ ~outro /\ ~chorus /\ ~bridge)

\* C6 witness: a high-energy, beat-dense first segment labelled intro.
C6_Witness ==
    /\ Iterated
    /\ i = 1
    /\ 10 * normalized_energy.n > 6 * normalized_energy.d
    /\ 10 * beat_density.n > 15 * beat_density.d
    /\ segments[1].section_type = "intro"

\* C7: segment index 0 is always intro; a segment is outro only when
\* index / total > 0.90 strictly, so index 9 of 10 is not outro and no track
\* of 10 or fewer segments has an outro.
C7_IntroFirstOutroStrict ==
    /\ Len(segments) >= 1 => segments[1].section_type = "intro"
    /\ \A k \in 1 .. Len(segments) :
          segments[k].section_type = "outro" =>
              /\ 10 * (k - 1) > 9 * num_segments
              /\ num_segments > 10

\* C7 witness: index 9 of a 10-segment track, not outro.
C7_Witness ==
    /\ num_segments = 10
    /\ Len(segments) = 10
    /\ segments[10].section_type # "outro"
    /\ segments[1].section_type = "intro"

\* C8: beat_density is the beat count over the segment's own duration
\* (end - start), also for a last segment shorter than 8 seconds.
C8_DensityOverOwnDuration ==
    Iterated =>
        IF end_time = start_time
        THEN beat_density.n = 0
        ELSE beat_density.n * (end_time - start_time)
                 = segments[i].beats_in_segment * sr * beat_density.d

\* C9: beats_in_segment counts the beats t with start <= t < end, so every
\* beat with 0 <= t < duration is counted in exactly one segment and the
\* counts sum to the number of such beats, at most total_beats.
C9_BeatsCountedOnce ==
    (Returned /\ ~Degraded) =>
        LET segs == result.segments
            In(k) == { j \in 1 .. Len(beat_times) :
                          /\ segment_duration * sr * (k - 1) <= beat_times[j]
                          /\ beat_times[j] < segment_duration * sr * k
                          /\ beat_times[j] < y_len }
            Within == { j \in 1 .. Len(beat_times) :
                          0 <= beat_times[j] /\ beat_times[j] < y_len }
        IN  /\ \A k \in 1 .. Len(segs) : segs[k].beats_in_segment = Cardinality(In(k))
            /\ \A j \in Within : Cardinality({ k \in 1 .. Len(segs) : j \in In(k) }) = 1
            /\ SumSeq([k \in 1 .. Len(segs) |-> segs[k].beats_in_segment])
                   = Cardinality(Within)
            /\ Cardinality(Within) <= result.total_beats

\* C9 witness: a beat exactly on the boundary of two blocks, counted in the
\* second block alone.
C9_Witness ==
    /\ Returned /\ ~Degraded
    /\ Len(result.segments) >= 2
    /\ \E j \in 1 .. Len(beat_times) : beat_times[j] = segment_duration * sr
    /\ result.segments[1].beats_in_segment = MaxBeats - 1
    /\ result.segments[2].beats_in_segment = 1

\* C10: a segment whose frame range is empty gets half of the track's
\* largest frame energy as its raw energy, so its normalized energy is 0.5.
C10_EmptyRangeHalfScale ==
    (Iterated /\ start_frame >= end_frame) =>
        /\ LET global_max == IF MaxSeq(rms) > 0 THEN MaxSeq(rms) ELSE FullScale
           IN  2 * avg_energy.n * FullScale = global_max * avg_energy.d
        /\ 2 * normalized_energy.n = normalized_energy.d


\* C11: when extraction succeeds on a track of zero duration the call returns
\* a result that is not degraded, with duration 0 and no segments, and no
\* exception is raised on the way.
C11_ZeroDurationValidResult ==
    (load_ok /\ y_len = 0 /\ Len(rms) > 0) =>
        /\ pc # "except"
        /\ Returned => /\ ~Degraded
                       /\ result.duration = 0
                       /\ result.num_segments = 0
                       /\ result.segments = << >>


\* C16: the frame ranges [start_frame, end_frame) of consecutive segments are
\* contiguous and disjoint: the first starts at frame 0, each later one starts
\* at the frame where its predecessor ended, and no range runs backwards, so
\* no frame between the first start and the last end is skipped or shared.
C16_FrameRangesContiguous ==
    [][ (pc = "loop" /\ i' = i + 1) =>
            /\ start_frame' = (IF i = 0 THEN 0 ELSE end_frame)
            /\ start_frame' <= end_frame'
            /\ end_frame' <= Len(rms) ]_vars

\* C16 witness: two segments, each with a frame of its own, the second
\* starting where the first ended.
C16_Witness ==
    /\ Iterated /\ i = 2
    /\ segments[1].end_time = segment_duration * 100
    /\ start_frame = 1 /\ end_frame = 2


\* Every frame of the curve has the same positive level.
UniformPositive ==
    /\ Len(rms) > 0
    /\ rms[1] > 0
    /\ \A k \in 1 .. Len(rms) : rms[k] = rms[1]

\* C12: a 64-second track gets exactly 8 segments, numbered 1 to 8, each
\* exactly 8 seconds long; when every frame of the curve has the same positive
\* level, the normalized energy of every segment is exactly 1.0 (stored as
\* 1.000) and every intensity is "high".
C12_SixtyFourSecondScenario ==
    (load_ok /\ y_len = ScenarioTrack) =>
        /\ Iterated /\ UniformPositive =>
               /\ normalized_energy.n = normalized_energy.d
               /\ segments[i].energy = 1000
               /\ segments[i].intensity = "high"
        /\ Returned =>
               /\ ~Degraded
               /\ result.num_segments = 8
               /\ Len(result.segments) = 8
               /\ \A k \in 1 .. 8 :
                      /\ result.segments[k].segment_number = k
                      /\ result.segments[k].start_time = segment_duration * 100 * (k - 1)
                      /\ result.segments[k].end_time = segment_duration * 100 * k
               /\ UniformPositive =>
                      \A k \in 1 .. 8 : /\ result.segments[k].energy = 1000
                                        /\ result.segments[k].intensity = "high"

\* C12 witness: the 64-second track analysed with a uniform curve below full
\* scale.
C12_Witness ==
    /\ Returned /\ ~Degraded
    /\ y_len = ScenarioTrack
    /\ UniformPositive /\ rms[1] < FullScale
    /\ Len(result.segments) = 8
    /\ result.segments[8].intensity = "high"


\* C17: the labels of a segment are decided from the unrounded
\* normalized_energy and beat_density of the iteration, never from the
\* rounded values the record stores: whatever the stored energy says, the
\* intensity is "high" exactly when the unrounded energy exceeds 0.7 and
\* "low" exactly when it does not exceed 0.4, and the chorus and bridge rules
\* read the unrounded values too.
C17_LabelsFromUnroundedValues ==
    Iterated =>
        LET seg == segments[i]
            ne == normalized_energy
            bd == beat_density
        IN  /\ seg.energy = Round(ne.n, ne.d, 3)
            /\ seg.beat_density = Round(bd.n, bd.d, 2)
            /\ seg.intensity = "high" <=> 10 * ne.n > 7 * ne.d
            /\ seg.intensity = "low" <=> 10 * ne.n <= 4 * ne.d
            /\ seg.section_type = "chorus" =>
                   10 * ne.n > 6 * ne.d /\ 10 * bd.n > 15 * bd.d
            /\ seg.section_type = "bridge" => 10 * ne.n < 3 * ne.d
            /\ seg.section_type = "verse" =>
                   /\ 10 * ne.n >= 3 * ne.d
                   /\ ~(10 * ne.n > 6 * ne.d /\ 10 * bd.n > 15 * bd.d)

\* C17 witness: a segment reported with energy exactly 0.7 and intensity
\* "high".
C17_Witness ==
    /\ Iterated
    /\ segments[i].energy = 700
    /\ segments[i].intensity = "high"


\* ----------------------------------------------------- server claims
\* An analysis dict is the fallback of the except handler.
DegradedAnalysis(a) == "error" \in DOMAIN a

\* Request r takes the step that ends upload_audio after its analysis.
UploadEnds(r) ==
    /\ req[r].op = "upload_audio"
    /\ req[r].pc = "store"
    /\ req'[r].pc = "done"

\* Request r arrives as a call of the handler op.
Arrives(r, op) ==
    /\ started' = started + 1
    /\ req'[r] # req[r]
    /\ req'[r].op = op

\* C13: an upload whose analysis failed is answered 200 with the fallback
\* analysis in the response and in the project's audio_analysis (the only
\* other outcome is a database error, never an error made of the failed
\* analysis), and an auto_generate_scenes that finds the fallback stored
\* passes the 'upload audio first' check.
C13_FallbackStoredAndAccepted ==
    [][ \A r \in Reqs :
          /\ (UploadEnds(r) /\ DegradedAnalysis(req[r].analysis)) =>
                 /\ req'[r].status_code = 200 \/ req'[r].error = DbError
                 /\ req'[r].status_code = 200 =>
                        /\ req'[r].analysis = req[r].analysis
                        /\ DegradedAnalysis(req'[r].analysis)
                        /\ project.exists => project'.audio_analysis = req[r].analysis
          /\ ( /\ Arrives(r, "auto_generate_scenes")
               /\ project.exists
               /\ DegradedAnalysis(project.audio_analysis) ) =>
                 \/ req'[r].pc = "mark"
                 \/ req'[r].error = DbError ]_vars

\* C13 witness: an auto_generate_scenes past its check on a project whose
\* stored analysis is the fallback of a failed analysis.
C13_Witness ==
    \E r \in Reqs :
        /\ req[r].op = "auto_generate_scenes"
        /\ req[r].pc = "mark"
        /\ req[r].audio_analysis.error = "LoadError"
        /\ req[r].audio_analysis.duration = FallbackDuration * 100
        /\ project.audio_analysis = req[r].audio_analysis

\* C14: the audio_analysis of a project changes only in the step in which an
\* upload_audio stores its result, and then it is that upload's analysis,
\* whole; every step of every other handler leaves it as it is.  So at any
\* time it is the analysis of the last upload that stored one.
C14_AnalysisWrittenByUploadOnly ==
    [][ /\ (project.exists /\ project'.exists
            /\ project'.audio_analysis # project.audio_analysis) =>
               \E r \in Reqs : /\ UploadEnds(r)
                               /\ req'[r].status_code = 200
                               /\ project'.audio_analysis = req[r].analysis
        /\ \A r \in Reqs :
               (UploadEnds(r) /\ req'[r].status_code = 200 /\ project.exists) =>
                   project'.audio_analysis = req[r].analysis ]_vars

\* C14 witness: auto_generate_scenes has stored a storyboard, a status, lyrics
\* and a style on a project that keeps the analysis of its upload.
C14_Witness ==
    /\ project.exists
    /\ "segments" \in DOMAIN project.audio_analysis
    /\ project.status = "storyboard_ready"
    /\ project.storyboard # None
    /\ project.lyrics = "words"
    /\ \E r \in Reqs : /\ req[r].op = "auto_generate_scenes"
                       /\ req[r].pc = "done"
                       /\ req[r].status_code = 200

\* C18: the temporary file of an upload is on disk only between the write of
\* the bytes and the end of the request: once an upload_audio has ended,
\* with a response or with an exception, its file is gone.
C18_TempFileDeleted ==
    \A r \in Reqs :
        /\ (req[r].op = "upload_audio" /\ req[r].pc = "done") => r \notin tmp_files
        /\ r \in tmp_files =>
               req[r].op = "upload_audio" /\ req[r].pc \in {"analyze", "store"}

\* C18 witness: an upload that ended with the exception of update_one, after
\* a fallback analysis, and whose file is gone.
C18_Witness ==
    \E r \in Reqs :
        /\ req[r].op = "upload_audio"
        /\ req[r].pc = "done"
        /\ req[r].error = DbError
        /\ "analysis" \in DOMAIN req[r]
        /\ DegradedAnalysis(req[r].analysis)
        /\ r \notin tmp_files

\* Request r is a generation request that has ended after setting the status
\* to 'processing'.
EndedAfterProcessing(r) ==
    /\ req[r].op \in {"auto_generate_scenes", "generate_storyboard"}
    /\ req[r].pc = "done"
    /\ "wrote" \in DOMAIN req[r]
    /\ req[r].wrote # NoneStr

\* C19 as written: a generation request that has set the status to
\* 'processing' has written 'storyboard_ready' or 'draft' by the time it ends.
C19_ProcessingAlwaysResolved ==
    \A r \in Reqs :
        EndedAfterProcessing(r) => req[r].wrote \in {"storyboard_ready", "draft"}

\* C19 amended: such a request has written 'storyboard_ready' when it answers
\* 200 and 'draft' when it fails for a missing key, an unparsable answer or a
\* failed call of the language model; the one way it ends with 'processing'
\* as its last write is that its own update_one of 'draft' raised.
C19_ResolvedUnlessDraftWriteRaises ==
    \A r \in Reqs :
        EndedAfterProcessing(r) =>
            /\ req[r].status_code = 200 <=> req[r].wrote = "storyboard_ready"
            /\ req[r].error # DbError => req[r].wrote \in {"storyboard_ready", "draft"}
            /\ req[r].wrote \notin {"storyboard_ready", "draft"} =>
                   /\ req[r].wrote = "processing"
                   /\ req[r].status_code = 500
                   /\ req[r].error = DbError

\* C19 witness: an auto_generate_scenes that ended on an unparsable answer
\* with 'draft' written.
C19_Witness ==
    \E r \in Reqs :
        /\ EndedAfterProcessing(r)
        /\ req[r].op = "auto_generate_scenes"
        /\ req[r].error = "JSONDecodeError"
        /\ req[r].wrote = "draft"
        /\ project.status = "draft"

\* C20: when the stored analysis has no segments, the default segments of
\* auto_generate_scenes tile [0, duration): there is at least one, the first
\* starts at 0, each is 8 seconds long except possibly the last, each starts
\* where its predecessor ended, and the last ends exactly at duration.
C20_DefaultSegmentsTileDuration ==
    [][ \A r \in Reqs :
          ( /\ req[r].op = "auto_generate_scenes"
            /\ req[r].pc = "mark"
            /\ req'[r].pc = "llm"
            /\ req[r].audio_analysis.segments = << >>
            /\ req[r].audio_analysis.duration > 0 ) =>
              LET segs == req'[r].segments
                  d == req[r].audio_analysis.duration
              IN  /\ Len(segs) >= 1
                  /\ segs[1].start_time = 0
                  /\ \A k \in 1 .. Len(segs) :
                         /\ segs[k].end_time - segs[k].start_time > 0
                         /\ segs[k].end_time - segs[k].start_time <= DefaultBlock * 100
                         /\ k < Len(segs) =>
                                /\ segs[k].end_time - segs[k].start_time = DefaultBlock * 100
                                /\ segs[k + 1].start_time = segs[k].end_time
                  /\ segs[Len(segs)].end_time = d ]_vars


\* C21: in every result analyze_audio_file returns, num_segments equals the
\* length of the segments list (so the total_segments that upload_audio
\* reports from num_segments is the number of segments stored).
C21_NumSegmentsIsLength ==
    Returned => result.num_segments = Len(result.segments)


\* The stored storyboard holds the edit of the scene with this id.
EditStored(doc, scene_id) ==
    /\ doc.exists
    /\ doc.storyboard # None
    /\ \E k \in 1 .. Len(doc.storyboard.scenes) :
           /\ doc.storyboard.scenes[k].id = scene_id
           /\ doc.storyboard.scenes[k].description = "user"

\* Request r takes the write step of a scene update and is answered 200.
SceneUpdateEnds(r) ==
    /\ At(r, "update_single_scene", "write")
    /\ req'[r].pc = "done"
    /\ req'[r].status_code = 200

\* Request q has been answered 200 for its edit of a scene.
SceneUpdated(q) ==
    /\ req[q].op = "update_single_scene"
    /\ req[q].pc = "done"
    /\ req[q].status_code = 200

\* C22: two scene-update requests for two different scenes of the project,
\* their reads and writes interleaved in any order, leave both edits in the
\* stored storyboard: when the second of them is answered while the edit of
\* the first is in the stored storyboard, its write keeps that edit next to
\* its own.
C22_ConcurrentSceneEditsBothKept ==
    [][ \A r, q \in Reqs :
          ( /\ r # q
            /\ SceneUpdateEnds(r)
            /\ SceneUpdated(q)
            /\ req[q].scene_id # req[r].scene_id
            /\ EditStored(project, req[q].scene_id) )
          => /\ EditStored(project', req[q].scene_id)
             /\ EditStored(project', req[r].scene_id) ]_vars

=============================================================================
